---------------------------- MODULE Spec2Model ----------------------------
(***************************************************************************)
(* The AppSync resolver pair of amplify/data/bedrock.js (request/response) *)
(* and its earlier variant (src/unnamed/part_001).                         *)
(*                                                                         *)
(* A JavaScript string is a sequence of one-character strings, so that     *)
(* joining, template interpolation, JSON.stringify's escaping and          *)
(* JSON.parse's grammar are computed and not assumed.  A JSON value is a   *)
(* record [k, v]: k the kind, v the payload of that kind.  Payloads of     *)
(* two values are only compared after their kinds were found equal.        *)
(***************************************************************************)
EXTENDS Integers, Sequences, FiniteSets

VARIABLES phase, handler, ctx, thrown, req, res, log

vars == <<phase, handler, ctx, thrown, req, res, log>>

(***************************************************************************)
(* Bounds of the explored inputs.                                          *)
(***************************************************************************)
MaxIngredients == 2

MaxRawLen == 2

MaxTextLen == 1

(***************************************************************************)
(* String literals of the source, as character sequences.                  *)
(***************************************************************************)
UpstreamErrorMessage ==
    <<"\\u30ec", "\\u30b7", "\\u30d4", "\\u306e", "\\u751f", "\\u6210",
      "\\u4e2d", "\\u306b", "\\u30a8", "\\u30e9", "\\u30fc", "\\u304c",
      "\\u767a", "\\u751f", "\\u3057", "\\u307e", "\\u3057", "\\u305f",
      "\\u3002", "\\u8a73", "\\u7d30", "\\u306b", "\\u3064", "\\u3044",
      "\\u3066", "\\u306f", "\\u30d0", "\\u30c3", "\\u30af", "\\u30a8",
      "\\u30f3", "\\u30c9", "\\u30ed", "\\u30b0", "\\u3092", "\\u78ba",
      "\\u8a8d", "\\u3057", "\\u3066", "\\u304f", "\\u3060", "\\u3055",
      "\\u3044", "\\u3002">>

UpstreamErrorMessageV1 ==
    <<"\\u30ec", "\\u30b7", "\\u30d4", "\\u306e", "\\u751f", "\\u6210",
      "\\u4e2d", "\\u306b", "\\u30a8", "\\u30e9", "\\u30fc", "\\u304c",
      "\\u767a", "\\u751f", "\\u3057", "\\u307e", "\\u3057", "\\u305f",
      "\\u3002", "\\u8a73", "\\u7d30", "\\u306f", "\\u30ed", "\\u30b0",
      "\\u3092", "\\u3054", "\\u78ba", "\\u8a8d", "\\u304f", "\\u3060",
      "\\u3055", "\\u3044", "\\u3002">>

ParseFailureMessage ==
    <<"\\u30ec", "\\u30b7", "\\u30d4", "\\u306e", "\\u89e3", "\\u6790",
      "\\u4e2d", "\\u306b", "\\u30a8", "\\u30e9", "\\u30fc", "\\u304c",
      "\\u767a", "\\u751f", "\\u3057", "\\u307e", "\\u3057", "\\u305f", ":",
      " ", "\\u7121", "\\u52b9", "\\u306a", "\\u30ec", "\\u30b9", "\\u30dd",
      "\\u30f3", "\\u30b9", "\\u5f62", "\\u5f0f", "\\u3002">>

UnexpectedStructureMessage ==
    <<"\\u30ec", "\\u30b7", "\\u30d4", "\\u306e", "\\u89e3", "\\u6790",
      "\\u4e2d", "\\u306b", "\\u30a8", "\\u30e9", "\\u30fc", "\\u304c",
      "\\u767a", "\\u751f", "\\u3057", "\\u307e", "\\u3057", "\\u305f", ":",
      " ", "\\u4e88", "\\u671f", "\\u305b", "\\u306c", "\\u30ec", "\\u30b9",
      "\\u30dd", "\\u30f3", "\\u30b9", "\\u69cb", "\\u9020", "\\u3002">>

PromptPrefix ==
    <<"S", "u", "g", "g", "e", "s", "t", " ", "a", " ", "r", "e", "c", "i",
      "p", "e", " ", "i", "d", "e", "a", " ", "u", "s", "i", "n", "g", " ",
      "t", "h", "e", "s", "e", " ", "i", "n", "g", "r", "e", "d", "i", "e",
      "n", "t", "s", ":", " ">>

HumanPrefix ==
    <<"\n", "\n", "H", "u", "m", "a", "n", ":", " ">>

AssistantSuffix ==
    <<"\n", "\n", "A", "s", "s", "i", "s", "t", "a", "n", "t", ":">>

AnthropicVersion ==
    <<"b", "e", "d", "r", "o", "c", "k", "-", "2", "0", "2", "3", "-", "0",
      "5", "-", "3", "1">>

K_anthropic_version ==
    <<"a", "n", "t", "h", "r", "o", "p", "i", "c", "_", "v", "e", "r", "s",
      "i", "o", "n">>

K_max_tokens ==
    <<"m", "a", "x", "_", "t", "o", "k", "e", "n", "s">>

K_messages ==
    <<"m", "e", "s", "s", "a", "g", "e", "s">>

K_role ==
    <<"r", "o", "l", "e">>

K_content ==
    <<"c", "o", "n", "t", "e", "n", "t">>

K_type ==
    <<"t", "y", "p", "e">>

K_text ==
    <<"t", "e", "x", "t">>

S_user ==
    <<"u", "s", "e", "r">>

S_text ==
    <<"t", "e", "x", "t">>

S_image ==
    <<"i", "m", "a", "g", "e">>

ObjectObject ==
    <<"[", "o", "b", "j", "e", "c", "t", " ", "O", "b", "j", "e", "c", "t",
      "]">>

NotJson ==
    <<"n", "o", "t", " ", "j", "s", "o", "n">>

Pasta ==
    <<"P", "a", "s", "t", "a", " ", "w", "i", "t", "h", " ", "t", "o", "m",
      "a", "t", "o", "e", "s">>

BodyPasta ==
    <<"{", "\"", "c", "o", "n", "t", "e", "n", "t", "\"", ":", "[", "{",
      "\"", "t", "y", "p", "e", "\"", ":", "\"", "t", "e", "x", "t", "\"",
      ",", "\"", "t", "e", "x", "t", "\"", ":", "\"", "P", "a", "s", "t",
      "a", " ", "w", "i", "t", "h", " ", "t", "o", "m", "a", "t", "o", "e",
      "s", "\"", "}", "]", "}">>

BodyEmptyContent ==
    <<"{", "\"", "c", "o", "n", "t", "e", "n", "t", "\"", ":", "[", "]", "}">>

BodySpaced ==
    <<" ", "{", "\n", "\t", "\"", "c", "o", "n", "t", "e", "n", "t", "\"",
      " ", ":", " ", "[", " ", "{", " ", "\"", "t", "y", "p", "e", "\"",
      " ", ":", " ", "\"", "t", "e", "x", "t", "\"", " ", ",", " ", "\"",
      "t", "e", "x", "t", "\"", " ", ":", " ", "\"", "a", " ", "b", "\"",
      " ", "}", " ", "]", " ", "}", "\r", "\n">>

BodyEscaped ==
    <<"{", "\"", "\\", "u", "0", "0", "6", "3", "o", "n", "t", "e", "n",
      "t", "\"", ":", "[", "{", "\"", "t", "y", "p", "e", "\"", ":", "\"",
      "\\", "u", "0", "0", "7", "4", "e", "x", "t", "\"", ",", "\"", "t",
      "e", "x", "t", "\"", ":", "\"", "\\", "u", "0", "0", "4", "1", "\\",
      "/", "\\", "\"", "\\", "\\", "\\", "n", "\\", "t", "\"", "}", "]", "}">>

BodyFractions ==
    <<"{", "\"", "c", "o", "n", "t", "e", "n", "t", "\"", ":", "[", "{",
      "\"", "t", "y", "p", "e", "\"", ":", "\"", "t", "e", "x", "t", "\"",
      ",", "\"", "t", "e", "x", "t", "\"", ":", "\"", "x", "\"", ",", "\"",
      "s", "c", "o", "r", "e", "\"", ":", "-", "1", ".", "5", "e", "+", "3",
      "}", "]", ",", "\"", "n", "\"", ":", "0", ".", "0", "}">>

BodyTrailingComma ==
    <<"{", "\"", "c", "o", "n", "t", "e", "n", "t", "\"", ":", "[", "{",
      "\"", "t", "y", "p", "e", "\"", ":", "\"", "t", "e", "x", "t", "\"",
      ",", "\"", "t", "e", "x", "t", "\"", ":", "\"", "x", "\"", "}", ",",
      "]", "}">>

BodyBadEscape ==
    <<"{", "\"", "c", "o", "n", "t", "e", "n", "t", "\"", ":", "[", "{",
      "\"", "t", "y", "p", "e", "\"", ":", "\"", "t", "e", "x", "t", "\"",
      ",", "\"", "t", "e", "x", "t", "\"", ":", "\"", "\\", "x", "\"", "}",
      "]", "}">>

BodyRawNewline ==
    <<"{", "\"", "c", "o", "n", "t", "e", "n", "t", "\"", ":", "[", "{",
      "\"", "t", "y", "p", "e", "\"", ":", "\"", "t", "e", "x", "t", "\"",
      ",", "\"", "t", "e", "x", "t", "\"", ":", "\"", "a", "\n", "b", "\"",
      "}", "]", "}">>

BodySingleQuotes ==
    <<"{", "'", "c", "o", "n", "t", "e", "n", "t", "'", ":", "[", "]", "}">>

BodyLeadingZero ==
    <<"{", "\"", "c", "o", "n", "t", "e", "n", "t", "\"", ":", "0", "1", "}">>

BodyTwoValues ==
    <<"{", "}", " ", "{", "}">>

(***************************************************************************)
(* Characters.  A character the TLA+ string syntax cannot write is an atom *)
(* named by its JavaScript escape.                                         *)
(***************************************************************************)
DigitChars == <<"0", "1", "2", "3", "4", "5", "6", "7", "8", "9">>

Digits == {DigitChars[i] : i \in 1..10}

Whitespace == {" ", "\t", "\n", "\r"}

ControlChars == {"\n", "\r", "\t", "\f", "\\b"}

BS == "\\b"

OtherCodeUnit == "\\ufffd"

Ascii ==
    <<" ", "!", "\"", "#", "$", "%", "&", "'", "(", ")", "*", "+", ",", "-",
      ".", "/", "0", "1", "2", "3", "4", "5", "6", "7", "8", "9", ":", ";",
      "<", "=", ">", "?", "@", "A", "B", "C", "D", "E", "F", "G", "H", "I",
      "J", "K", "L", "M", "N", "O", "P", "Q", "R", "S", "T", "U", "V", "W",
      "X", "Y", "Z", "[", "\\", "]", "^", "_", "\\u0060", "a", "b", "c", "d", "e",
      "f", "g", "h", "i", "j", "k", "l", "m", "n", "o", "p", "q", "r", "s",
      "t", "u", "v", "w", "x", "y", "z", "{", "|", "}", "~">>

(***************************************************************************)
(* JavaScript values as far as JSON and the resolver's checks see them.    *)
(***************************************************************************)
JUndefined == [k |-> "undefined", v |-> <<>>]

JNull == [k |-> "null", v |-> <<>>]

JBool(b) == [k |-> "bool", v |-> b]

JNum(lexeme) == [k |-> "num", v |-> lexeme]

JStr(s) == [k |-> "str", v |-> s]

JArr(es) == [k |-> "arr", v |-> es]

JObj(ms) == [k |-> "obj", v |-> ms]

Member(key, val) == [key |-> key, val |-> val]

(* Number.prototype.toString for a non-negative integer. *)
RECURSIVE ToDigits(_)
ToDigits(n) ==
    IF n < 10 THEN <<DigitChars[n + 1]>>
    ELSE Append(ToDigits(n \div 10), DigitChars[(n % 10) + 1])

(***************************************************************************)
(* JSON.stringify(value) without indentation.                              *)
(***************************************************************************)
EscapeCharUnescaped(c) == <<c>>

EscapeChar(c) ==
    CASE c = "\"" -> <<"\\", "\"">>
      [] c = "\\" -> <<"\\", "\\">>
      [] c = "\n" -> <<"\\", "n">>
      [] c = "\r" -> <<"\\", "r">>
      [] c = "\t" -> <<"\\", "t">>
      [] c = "\f" -> <<"\\", "f">>
      [] c = BS -> <<"\\", "b">>
      [] OTHER -> <<c>>

(* The least index from i on of a character of set, or Len(s) + 1. *)
NextIn(s, i, set) ==
    LET hits == {n \in i..Len(s) : s[n] \in set}
    IN  IF hits = {} THEN Len(s) + 1
        ELSE CHOOSE n \in hits : \A m \in hits : n <= m

Escaped == {"\"", "\\", "\n", "\r", "\t", "\f", BS}

(* The characters of s from index i, escaped; runs of characters that are *)
(* written as they are get copied whole.                                   *)
RECURSIVE EscapeFrom(_, _)

EscapeTo(s, i, n) ==
    IF n > Len(s) THEN SubSeq(s, i, Len(s))
    ELSE SubSeq(s, i, n - 1) \o EscapeChar(s[n]) \o EscapeFrom(s, n + 1)

EscapeFrom(s, i) == EscapeTo(s, i, NextIn(s, i, Escaped))

Quote(s) == <<"\"">> \o EscapeFrom(s, 1) \o <<"\"">>

RECURSIVE Stringify(_), StringifyElems(_, _), StringifyMembers(_, _)
Stringify(x) ==
    CASE x.k = "null" -> <<"n", "u", "l", "l">>
      [] x.k = "bool" ->
            IF x.v THEN <<"t", "r", "u", "e">> ELSE <<"f", "a", "l", "s", "e">>
      [] x.k = "num" -> x.v
      [] x.k = "str" -> Quote(x.v)
      [] x.k = "arr" -> <<"[">> \o StringifyElems(x.v, 1) \o <<"]">>
      [] x.k = "obj" -> <<"{">> \o StringifyMembers(x.v, 1) \o <<"}">>

StringifyElems(es, i) ==
    IF i > Len(es) THEN <<>>
    ELSE (IF i > 1 THEN <<",">> ELSE <<>>)
         \o Stringify(es[i]) \o StringifyElems(es, i + 1)

StringifyMembers(ms, i) ==
    IF i > Len(ms) THEN <<>>
    ELSE (IF i > 1 THEN <<",">> ELSE <<>>)
         \o Quote(ms[i].key) \o <<":">> \o Stringify(ms[i].val)
         \o StringifyMembers(ms, i + 1)

(***************************************************************************)
(* JSON.parse(text): the JSON grammar of ECMA-404.  A parse step returns   *)
(* [ok, val, pos]: pos is the index after the value.                       *)
(***************************************************************************)
Fail == [ok |-> FALSE, val |-> JUndefined, pos |-> 0]

Ok(val, pos) == [ok |-> TRUE, val |-> val, pos |-> pos]

(* The character at index i, or "" past the end of the text. *)
At(s, i) == IF i >= 1 /\ i <= Len(s) THEN s[i] ELSE ""

StartsWith(s, i, w) ==
    /\ i + Len(w) - 1 <= Len(s)
    /\ SubSeq(s, i, i + Len(w) - 1) = w

RECURSIVE SkipWS(_, _)
SkipWS(s, i) ==
    IF At(s, i) \in Whitespace THEN SkipWS(s, i + 1) ELSE i

RECURSIVE DigitsEnd(_, _)
DigitsEnd(s, i) ==
    IF At(s, i) \in Digits THEN DigitsEnd(s, i + 1) ELSE i

ParseNumber(s, i) ==
    LET a == IF At(s, i) = "-" THEN i + 1 ELSE i
        b == IF At(s, a) = "0" THEN a + 1 ELSE DigitsEnd(s, a)
        hasFrac == At(s, b) = "."
        c == IF hasFrac THEN DigitsEnd(s, b + 1) ELSE b
        hasExp == At(s, c) \in {"e", "E"}
        e == IF ~hasExp THEN c
             ELSE IF At(s, c + 1) \in {"+", "-"} THEN c + 2 ELSE c + 1
        d == IF hasExp THEN DigitsEnd(s, e) ELSE c
    IN  IF b > a /\ (hasFrac => c > b + 1) /\ (hasExp => d > e)
        THEN Ok(JNum(SubSeq(s, i, d - 1)), d)
        ELSE Fail

ParseLiteral(s, i) ==
    IF StartsWith(s, i, <<"t", "r", "u", "e">>) THEN Ok(JBool(TRUE), i + 4)
    ELSE IF StartsWith(s, i, <<"f", "a", "l", "s", "e">>)
         THEN Ok(JBool(FALSE), i + 5)
    ELSE IF StartsWith(s, i, <<"n", "u", "l", "l">>) THEN Ok(JNull, i + 4)
    ELSE Fail

HexDigits ==
    <<"0", "1", "2", "3", "4", "5", "6", "7", "8", "9",
      "a", "b", "c", "d", "e", "f", "A", "B", "C", "D", "E", "F">>

IsHex(c) == \E n \in 1..22 : HexDigits[n] = c

HexVal(c) ==
    LET n == CHOOSE m \in 1..22 : HexDigits[m] = c
    IN  IF n <= 16 THEN n - 1 ELSE n - 7

(* The code unit a \uXXXX escape denotes; code units outside ASCII that   *)
(* no explored text uses are all written OtherCodeUnit.                   *)
CodeUnit(h) ==
    LET n == ((HexVal(h[1]) * 16 + HexVal(h[2])) * 16 + HexVal(h[3])) * 16
             + HexVal(h[4])
    IN  CASE n >= 32 /\ n <= 126 -> Ascii[n - 31]
          [] n = 8 -> BS
          [] n = 9 -> "\t"
          [] n = 10 -> "\n"
          [] n = 12 -> "\f"
          [] n = 13 -> "\r"
          [] OTHER -> OtherCodeUnit

Unescape(c) ==
    CASE c = "n" -> "\n"
      [] c = "r" -> "\r"
      [] c = "t" -> "\t"
      [] c = "f" -> "\f"
      [] c = "b" -> BS
      [] OTHER -> c

(* The characters of a string literal from index j, after its opening     *)
(* quote; a run of characters up to the next quote, backslash or control  *)
(* character is taken whole.                                              *)
RECURSIVE ScanString(_, _, _)

(* n is the index of the next quote, backslash or control character. *)
ScanRun(s, n, run) ==
    IF n > Len(s) THEN Fail
    ELSE IF s[n] = "\"" THEN Ok(JStr(run), n + 1)
    ELSE IF s[n] \in ControlChars THEN Fail
    ELSE IF At(s, n + 1) \in {"\"", "\\", "/", "b", "f", "n", "r", "t"}
         THEN ScanString(s, n + 2, Append(run, Unescape(s[n + 1])))
    ELSE IF /\ At(s, n + 1) = "u"
            /\ n + 5 <= Len(s)
            /\ \A m \in 2..5 : IsHex(s[n + m])
         THEN ScanString(s, n + 6,
                         Append(run, CodeUnit(SubSeq(s, n + 2, n + 5))))
    ELSE Fail

ScanTo(s, j, n, acc) == ScanRun(s, n, acc \o SubSeq(s, j, n - 1))

ScanString(s, j, acc) ==
    ScanTo(s, j, NextIn(s, j, {"\"", "\\"} \cup ControlChars), acc)

RECURSIVE ParseValue(_, _), ParseElements(_, _, _), ParseMembers(_, _, _)

(* After an element, at index j: a comma and more elements, or the end. *)
ElementSep(s, j, acc) ==
    IF At(s, j) = "," THEN ParseElements(s, SkipWS(s, j + 1), acc)
    ELSE IF At(s, j) = "]" THEN Ok(JArr(acc), j + 1)
    ELSE Fail

AfterElement(s, e, acc) ==
    IF ~e.ok THEN Fail
    ELSE ElementSep(s, SkipWS(s, e.pos), Append(acc, e.val))

(* The elements of an array from index i, the first character of a value. *)
ParseElements(s, i, acc) == AfterElement(s, ParseValue(s, i), acc)

(* After a member, at index j: a comma and more members, or the end. *)
MemberSep(s, j, acc) ==
    IF At(s, j) = "," THEN ParseMembers(s, SkipWS(s, j + 1), acc)
    ELSE IF At(s, j) = "}" THEN Ok(JObj(acc), j + 1)
    ELSE Fail

AfterMemberValue(s, name, e, acc) ==
    IF ~e.ok THEN Fail
    ELSE MemberSep(s, SkipWS(s, e.pos), Append(acc, Member(name, e.val)))

(* After a key, at index c: the colon and the member's value. *)
Colon(s, name, c, acc) ==
    IF At(s, c) # ":" THEN Fail
    ELSE AfterMemberValue(s, name, ParseValue(s, SkipWS(s, c + 1)), acc)

AfterKey(s, key, acc) ==
    IF ~key.ok THEN Fail
    ELSE Colon(s, key.val.v, SkipWS(s, key.pos), acc)

(* The members of an object from index i, the opening quote of a key. *)
ParseMembers(s, i, acc) ==
    IF At(s, i) = "\"" THEN AfterKey(s, ScanString(s, i + 1, <<>>), acc)
    ELSE Fail

(* An object, from index j after its brace and whitespace. *)
ParseObject(s, j) ==
    IF At(s, j) = "}" THEN Ok(JObj(<<>>), j + 1)
    ELSE ParseMembers(s, j, <<>>)

(* An array, from index j after its bracket and whitespace. *)
ParseArray(s, j) ==
    IF At(s, j) = "]" THEN Ok(JArr(<<>>), j + 1)
    ELSE ParseElements(s, j, <<>>)

ParseValue(s, i) ==
    CASE At(s, i) = "{" -> ParseObject(s, SkipWS(s, i + 1))
      [] At(s, i) = "[" -> ParseArray(s, SkipWS(s, i + 1))
      [] At(s, i) = "\"" -> ScanString(s, i + 1, <<>>)
      [] At(s, i) \in Digits \cup {"-"} -> ParseNumber(s, i)
      [] OTHER -> ParseLiteral(s, i)

(* The whole text is one value, whitespace around it aside. *)
WholeText(s, e) ==
    IF e.ok /\ SkipWS(s, e.pos) = Len(s) + 1 THEN e ELSE Fail

(* JSON.parse: ok is FALSE where JSON.parse throws SyntaxError. *)
JSONParse(s) == WholeText(s, ParseValue(s, SkipWS(s, 1)))

(***************************************************************************)
(* The outcome of a call: a returned value or a thrown exception, with the *)
(* lines the call wrote through util.log / util.error before it ended.     *)
(***************************************************************************)
LogLine(level, msg, detail) == [level |-> level, msg |-> msg, detail |-> detail]

Return(value, lines) == [kind |-> "return", value |-> value, log |-> lines]

Throw(value, lines) == [kind |-> "throw", value |-> value, log |-> lines]

(***************************************************************************)
(* request(ctx)                                                            *)
(***************************************************************************)
MaxTokens == 1000

ResourcePath == "/model/anthropic.claude-3-sonnet-20240229-v1:0/invoke"

SeparatorNoSpace == <<",">>

Separator == <<",", " ">>

Ing(kind, num, str, arr) == [kind |-> kind, num |-> num, str |-> str, arr |-> arr]

IngUndefined == Ing("undefined", 0, <<>>, <<>>)

IngArray(arr) == Ing("array", 0, <<>>, arr)

(* const { ingredients = [] } = ctx.args: the default applies to undefined only. *)
Destructure(args) ==
    IF args.ingredients.kind = "undefined" THEN IngArray(<<>>)
    ELSE args.ingredients

IsArray(x) == x.kind = "array"

(* String(value) of a value that is not an array. *)
ToStringJS(x) ==
    CASE x.kind = "null" -> <<"n", "u", "l", "l">>
      [] x.kind = "number" -> ToDigits(x.num)
      [] x.kind = "string" -> x.str
      [] x.kind = "object" -> ObjectObject

RECURSIVE JoinFrom(_, _, _)
JoinFrom(arr, sep, i) ==
    IF i > Len(arr) THEN <<>>
    ELSE (IF i > 1 THEN sep ELSE <<>>) \o arr[i] \o JoinFrom(arr, sep, i + 1)

(* x.join(sep): Array.prototype.join on an array of strings; on a value    *)
(* that has no join method the call throws TypeError.                     *)
CallJoin(x, sep) ==
    IF x.kind = "array" THEN Return(JoinFrom(x.arr, sep, 1), <<>>)
    ELSE Throw(<<>>, <<>>)

PromptIngredientsUnguarded(args) == CallJoin(Destructure(args), Separator)

PromptIngredients(args) ==
    LET ingredients == Destructure(args)
    IN  IF IsArray(ingredients) THEN CallJoin(ingredients, Separator)
        ELSE Return(ToStringJS(ingredients), <<>>)

Prompt(joined) == PromptPrefix \o joined \o <<".">>

Wrap(prompt) == HumanPrefix \o prompt \o AssistantSuffix

Payload(prompt) ==
    JObj(<<Member(K_anthropic_version, JStr(AnthropicVersion)),
           Member(K_max_tokens, JNum(ToDigits(MaxTokens))),
           Member(K_messages, JArr(<<
               JObj(<<Member(K_role, JStr(S_user)),
                      Member(K_content, JArr(<<
                          JObj(<<Member(K_type, JStr(S_text)),
                                 Member(K_text, JStr(Wrap(prompt)))>>)>>))>>)>>))>>)

HttpRequest(prompt) ==
    [resourcePath |-> ResourcePath,
     method |-> "POST",
     params |-> [headers |-> [ContentType |-> "application/json"],
                 body |-> Stringify(Payload(prompt))]]

NoRequest ==
    [resourcePath |-> "", method |-> "",
     params |-> [headers |-> [ContentType |-> ""], body |-> <<>>]]

(* The log of the prompt and the return statement. *)
Build(prompt) ==
    Return(HttpRequest(prompt),
           <<LogLine("log", "DEBUG: Constructed prompt for Bedrock:", prompt)>>)

Prompted(promptIngredients) ==
    IF promptIngredients.kind = "throw" THEN Throw(NoRequest, <<>>)
    ELSE Build(Prompt(promptIngredients.value))

request(c) == Prompted(PromptIngredients(c.args))

(* The variant of src/unnamed/part_001. *)
PromptIngredientsV1(args) ==
    LET ingredients == Destructure(args)
    IN  IF IsArray(ingredients) THEN CallJoin(ingredients, Separator)
        ELSE Return(ToStringJS(ingredients), <<>>)

BuildV1(prompt) ==
    Return(HttpRequest(prompt),
           <<LogLine("log", "Constructed prompt for Bedrock:", prompt)>>)

PromptedV1(promptIngredients) ==
    IF promptIngredients.kind = "throw" THEN Throw(NoRequest, <<>>)
    ELSE BuildV1(Prompt(promptIngredients.value))

requestV1(c) == PromptedV1(PromptIngredientsV1(c.args))

(***************************************************************************)
(* response(ctx)                                                           *)
(***************************************************************************)
PreviewLimit == 200

PreviewLimitV1 == 100

Ellipsis == <<".", ".", ".">>

(* The text JSON.parse reads: its argument converted to a string. *)
BodyText(result) ==
    IF result.bodyDefined THEN result.body
    ELSE <<"u", "n", "d", "e", "f", "i", "n", "e", "d">>

(* Whether a number literal denotes zero (its mantissa has no other digit). *)
IsZero(lexeme) ==
    \A n \in 1..Len(lexeme) :
        \/ lexeme[n] \in {"-", "0", "."}
        \/ \E m \in 1..(n - 1) : lexeme[m] \in {"e", "E"}

(* ToBoolean(x), as && applies it. *)
Truthy(x) ==
    CASE x.k \in {"undefined", "null"} -> FALSE
      [] x.k = "bool" -> x.v
      [] x.k = "num" -> ~IsZero(x.v)
      [] x.k = "str" -> Len(x.v) > 0
      [] OTHER -> TRUE

(* Reading a property of undefined or null throws TypeError. *)
Nullish(x) == x.k \in {"undefined", "null"}

(* x[key] for x not nullish and key one of content, type, text: an own    *)
(* member of an object (the last of that name, as JSON.parse keeps it);   *)
(* primitives and arrays have no such property.                           *)
GetProp(x, key) ==
    IF x.k = "obj" /\ \E n \in 1..Len(x.v) : x.v[n].key = key
    THEN x.v[CHOOSE n \in 1..Len(x.v) :
                /\ x.v[n].key = key
                /\ \A m \in (n + 1)..Len(x.v) : x.v[m].key # key].val
    ELSE JUndefined

(* arr[0] *)
First(arr) == IF Len(arr.v) > 0 THEN arr.v[1] ELSE JUndefined

(* x === "text" *)
IsTextLiteral(x) == x.k = "str" /\ x.v = S_text

(* typeof x === "string" *)
IsString(x) == x.k = "str"

(* The condition of the if statement: "yes", "no", or "throw" when its    *)
(* evaluation reads a property of null.                                    *)
Shape(parsedBody) ==
    IF ~Truthy(parsedBody) THEN "no"
    ELSE IF GetProp(parsedBody, K_content).k # "arr" THEN "no"
    ELSE IF ~(Len(GetProp(parsedBody, K_content).v) > 0) THEN "no"
    ELSE IF ~Truthy(First(GetProp(parsedBody, K_content))) THEN "no"
    ELSE IF Nullish(First(GetProp(parsedBody, K_content))) THEN "throw"
    ELSE IF ~IsTextLiteral(GetProp(First(GetProp(parsedBody, K_content)), K_type))
         THEN "no"
    ELSE IF ~IsString(GetProp(First(GetProp(parsedBody, K_content)), K_text))
         THEN "no"
    ELSE "yes"

(* res.body.substring(0, Math.min(res.body.length, 200)) + (... ? "..." : "") *)
Preview(body) ==
    SubSeq(body, 1, IF Len(body) < PreviewLimit THEN Len(body) ELSE PreviewLimit)
    \o (IF Len(body) > PreviewLimit THEN Ellipsis ELSE <<>>)

Body(text) == [body |-> text]

NoResult == [body |-> <<>>]

(* The JSON dumps of ctx.error, parseError and parsedBody that some lines  *)
(* carry are not rendered: a line records its level, message and, where    *)
(* the detail is a string of the call, that string.                        *)
RawLine(c) ==
    LogLine("log", "DEBUG: Raw Bedrock response body:", BodyText(c.result))

(* if (ctx.error) { ... } *)
OnError(c) ==
    Return(Body(UpstreamErrorMessage),
           <<RawLine(c),
             LogLine("error", "ERROR: AppSync Resolver encountered an error:", <<>>)>>)

OnParseErrorUncaught(c) == Throw(NoResult, <<RawLine(c)>>)

(* catch (parseError) { ... } *)
OnParseError(c) ==
    Return(Body(ParseFailureMessage),
           <<RawLine(c),
             LogLine("error", "ERROR: Failed to parse Bedrock response body as JSON:", <<>>),
             LogLine("error", "ERROR: Invalid body content:", BodyText(c.result))>>)

OnTextPreviewed(c, text) ==
    Return(Body(Preview(text)),
           <<RawLine(c),
             LogLine("log", "INFO: Successfully parsed Bedrock response. Generated content preview:",
                     Preview(text))>>)

(* The branch taken when the condition holds. *)
OnText(c, text) ==
    Return(Body(text),
           <<RawLine(c),
             LogLine("log", "INFO: Successfully parsed Bedrock response. Generated content preview:",
                     Preview(text))>>)

(* The else branch. *)
OnUnexpected(c) ==
    Return(Body(UnexpectedStructureMessage),
           <<RawLine(c),
             LogLine("error", "ERROR: Unexpected Bedrock response structure.", <<>>),
             LogLine("error", "ERROR: Received response:", <<>>)>>)

(* The if statement on the parsed body. *)
Unwrap(c, parsedBody, shape) ==
    IF shape = "throw" THEN Throw(NoResult, <<RawLine(c)>>)
    ELSE IF shape = "yes"
         THEN OnText(c, GetProp(First(GetProp(parsedBody, K_content)), K_text).v)
    ELSE OnUnexpected(c)

(* try { parsedBody = JSON.parse(...) } catch, and what follows it. *)
Parsed(c, parsed) ==
    IF ~parsed.ok THEN OnParseError(c)
    ELSE Unwrap(c, parsed.val, Shape(parsed.val))

response(c) ==
    IF ~c.result.defined THEN Throw(NoResult, <<>>)
    ELSE IF c.error THEN OnError(c)
    ELSE Parsed(c, JSONParse(BodyText(c.result)))

ShapeV1AnyType(parsedBody) ==
    IF ~Truthy(parsedBody) THEN "no"
    ELSE IF GetProp(parsedBody, K_content).k # "arr" THEN "no"
    ELSE IF ~(Len(GetProp(parsedBody, K_content).v) > 0) THEN "no"
    ELSE IF Nullish(First(GetProp(parsedBody, K_content))) THEN "throw"
    ELSE IF ~IsString(GetProp(First(GetProp(parsedBody, K_content)), K_text))
         THEN "no"
    ELSE "yes"

(* The variant of src/unnamed/part_001. *)
ShapeV1(parsedBody) ==
    IF ~Truthy(parsedBody) THEN "no"
    ELSE IF GetProp(parsedBody, K_content).k # "arr" THEN "no"
    ELSE IF ~(Len(GetProp(parsedBody, K_content).v) > 0) THEN "no"
    ELSE IF Nullish(First(GetProp(parsedBody, K_content))) THEN "throw"
    ELSE IF ~IsTextLiteral(GetProp(First(GetProp(parsedBody, K_content)), K_type))
         THEN "no"
    ELSE IF ~IsString(GetProp(First(GetProp(parsedBody, K_content)), K_text))
         THEN "no"
    ELSE "yes"

(* res.body.substring(0, 100) + "..." *)
PreviewV1(body) ==
    SubSeq(body, 1, IF Len(body) < PreviewLimitV1 THEN Len(body) ELSE PreviewLimitV1)
    \o Ellipsis

RawLineV1(c) == LogLine("log", "Raw Bedrock response body:", BodyText(c.result))

OnErrorV1(c) ==
    Return(Body(UpstreamErrorMessageV1),
           <<RawLineV1(c), LogLine("log", "Bedrock invocation error:", <<>>)>>)

OnParseErrorV1(c) ==
    Return(Body(ParseFailureMessage),
           <<RawLineV1(c),
             LogLine("log", "\\u30ec\\u30b9\\u30dd\\u30f3\\u30b9\\u30dc\\u30c7\\u30a3\\u306eJSON\\u30d1\\u30fc\\u30b9\\u306b\\u5931\\u6557\\u3057\\u307e\\u3057\\u305f:", <<>>),
             LogLine("log", "\\u4e0d\\u6b63\\u306a\\u30dc\\u30c7\\u30a3\\u306e\\u5185\\u5bb9:", BodyText(c.result))>>)

OnTextV1(c, text) ==
    Return(Body(text),
           <<RawLineV1(c),
             LogLine("log", "Successfully parsed Bedrock response:", PreviewV1(text))>>)

OnUnexpectedV1(c) ==
    Return(Body(UnexpectedStructureMessage),
           <<RawLineV1(c),
             LogLine("log", "Bedrock\\u304b\\u3089\\u306e\\u30ec\\u30b9\\u30dd\\u30f3\\u30b9\\u5f62\\u5f0f\\u304c\\u4e88\\u671f\\u305b\\u306c\\u5f62\\u5f0f\\u3067\\u3059\\u3002", <<>>),
             LogLine("log", "\\u53d7\\u4fe1\\u3057\\u305f\\u30ec\\u30b9\\u30dd\\u30f3\\u30b9:", <<>>)>>)

UnwrapV1(c, parsedBody, shape) ==
    IF shape = "throw" THEN Throw(NoResult, <<RawLineV1(c)>>)
    ELSE IF shape = "yes"
         THEN OnTextV1(c, GetProp(First(GetProp(parsedBody, K_content)), K_text).v)
    ELSE OnUnexpectedV1(c)

ParsedV1(c, parsed) ==
    IF ~parsed.ok THEN OnParseErrorV1(c)
    ELSE UnwrapV1(c, parsed.val, ShapeV1(parsed.val))

responseV1(c) ==
    IF ~c.result.defined THEN Throw(NoResult, <<>>)
    ELSE IF c.error THEN OnErrorV1(c)
    ELSE ParsedV1(c, JSONParse(BodyText(c.result)))

(***************************************************************************)
(* The invocation contexts explored.                                       *)
(***************************************************************************)
Strings(alphabet, n) == UNION {[1..m -> alphabet] : m \in 0..n}

IngredientStrings ==
    {<<>>, <<"a">>, <<",">>, <<"\"">>, <<"\n">>, <<"e", "g", "g">>,
     <<"a", "\\">>, <<"\\", "\"">>}

IngredientLists ==
    Strings(IngredientStrings, MaxIngredients)
    \cup {<<(<<"r", "i", "c", "e">>), (<<"e", "g", "g">>), (<<"o", "i", "l">>)>>}

NonSequenceValues ==
    {Ing("null", 0, <<>>, <<>>), Ing("object", 0, <<>>, <<>>)}
    \cup {Ing("number", n, <<>>, <<>>) : n \in {0, 5, 42}}
    \cup {Ing("string", 0, s, <<>>) : s \in {<<>>, <<"a">>, <<"a", ",", " ", "b">>}}

IngredientValues ==
    {IngUndefined} \cup {IngArray(arr) : arr \in IngredientLists}
    \cup NonSequenceValues

NoResultField == [defined |-> FALSE, bodyDefined |-> FALSE, body |-> <<>>]

NoBody == [defined |-> TRUE, bodyDefined |-> FALSE, body |-> <<>>]

ResultOf(text) == [defined |-> TRUE, bodyDefined |-> TRUE, body |-> text]

RequestContexts ==
    {[args |-> [ingredients |-> i], error |-> FALSE, result |-> NoResultField] :
        i \in IngredientValues}

LongText(n) == [i \in 1..n |-> "a"]

TextAlphabet == {"x", "\"", "\\", "\n"}

Texts ==
    Strings(TextAlphabet, MaxTextLen)
    \cup {Pasta}
    \cup {LongText(n) : n \in {PreviewLimitV1 - 1, PreviewLimitV1, PreviewLimitV1 + 1,
                               PreviewLimit - 1, PreviewLimit, PreviewLimit + 1}}

TextBlock(t) == JObj(<<Member(K_type, JStr(S_text)), Member(K_text, JStr(t))>>)

WithContent(c) == JObj(<<Member(K_content, c)>>)

K_id == <<"i", "d">>

(* Response bodies of the expected shape with text t. *)
WellFormed(t) ==
    <<WithContent(JArr(<<TextBlock(t)>>)),
      WithContent(JArr(<<TextBlock(t), TextBlock(<<"y">>)>>)),
      WithContent(JArr(<<TextBlock(t), JNull>>)),
      JObj(<<Member(K_id, JStr(<<"m">>)),
             Member(K_content, JArr(<<
                 JObj(<<Member(K_text, JStr(t)), Member(K_id, JNum(<<"7">>)),
                        Member(K_type, JStr(S_text))>>)>>)),
             Member(K_role, JStr(S_user))>>),
      JObj(<<Member(K_content, JArr(<<>>)),
             Member(K_content, JArr(<<TextBlock(t)>>))>>),
      WithContent(JArr(<<
          JObj(<<Member(K_type, JStr(S_image)), Member(K_text, JNull),
                 Member(K_type, JStr(S_text)), Member(K_text, JStr(t))>>)>>))>>

Good == TextBlock(<<"x">>)

(* Response bodies that are JSON of another shape. *)
Malformed ==
    <<JNull, JBool(TRUE), JBool(FALSE), JNum(<<"0">>), JNum(<<"5">>),
      JStr(<<>>), JStr(S_text), JArr(<<>>), JArr(<<Good>>), JObj(<<>>),
      Good,
      JObj(<<Member(K_text, JArr(<<Good>>))>>),
      WithContent(JNull), WithContent(JBool(TRUE)), WithContent(JNum(<<"5">>)),
      WithContent(JStr(S_text)), WithContent(JObj(<<>>)), WithContent(Good),
      WithContent(JObj(<<Member(<<"0">>, Good)>>)),
      WithContent(JArr(<<>>)),
      WithContent(JArr(<<JNull>>)),
      WithContent(JArr(<<JNull, Good>>)),
      WithContent(JArr(<<JBool(FALSE)>>)),
      WithContent(JArr(<<JBool(TRUE)>>)),
      WithContent(JArr(<<JNum(<<"0">>)>>)),
      WithContent(JArr(<<JNum(<<"5">>)>>)),
      WithContent(JArr(<<JStr(<<>>)>>)),
      WithContent(JArr(<<JStr(S_text)>>)),
      WithContent(JArr(<<JStr(S_text), Good>>)),
      WithContent(JArr(<<JArr(<<>>)>>)),
      WithContent(JArr(<<JArr(<<Good>>)>>)),
      WithContent(JArr(<<JObj(<<>>)>>)),
      WithContent(JArr(<<JObj(<<>>), Good>>)),
      WithContent(JArr(<<JObj(<<Member(K_text, JStr(<<"x">>))>>)>>)),
      WithContent(JArr(<<JObj(<<Member(K_type, JStr(S_text))>>)>>)),
      WithContent(JArr(<<JObj(<<Member(K_type, JStr(S_image)),
                                Member(K_text, JStr(<<"x">>))>>)>>)),
      WithContent(JArr(<<JObj(<<Member(K_type, JStr(<<"T", "e", "x", "t">>)),
                                Member(K_text, JStr(<<"x">>))>>)>>)),
      WithContent(JArr(<<JObj(<<Member(K_type, JNull),
                                Member(K_text, JStr(<<"x">>))>>)>>)),
      WithContent(JArr(<<JObj(<<Member(K_type, JArr(<<JStr(S_text)>>)),
                                Member(K_text, JStr(<<"x">>))>>)>>)),
      WithContent(JArr(<<JObj(<<Member(K_type, JStr(S_text)),
                                Member(K_text, JNull)>>)>>)),
      WithContent(JArr(<<JObj(<<Member(K_type, JStr(S_text)),
                                Member(K_text, JNum(<<"5">>))>>)>>)),
      WithContent(JArr(<<JObj(<<Member(K_type, JStr(S_text)),
                                Member(K_text, JArr(<<JStr(<<"x">>)>>))>>)>>)),
      WithContent(JArr(<<JObj(<<Member(K_type, JStr(S_text)),
                                Member(K_text, JObj(<<>>))>>)>>)),
      WithContent(JArr(<<JObj(<<Member(K_type, JStr(S_text)),
                                Member(K_text, JStr(<<"x">>)),
                                Member(K_type, JStr(S_image))>>)>>)),
      WithContent(JArr(<<JObj(<<Member(K_type, JStr(S_text)),
                                Member(K_text, JStr(<<"x">>)),
                                Member(K_text, JBool(TRUE))>>)>>)),
      JObj(<<Member(K_content, JArr(<<Good>>)), Member(K_content, JArr(<<>>))>>),
      JObj(<<Member(K_content, JArr(<<Good>>)), Member(K_content, JNull)>>)>>

Prefixes(s) == {SubSeq(s, 1, n) : n \in 0..(Len(s) - 1)}

RawAlphabet == {"{", "}", "[", "]", "\"", "0", "1", "-", " "}

ResponseBodies ==
    {Stringify(WellFormed(t)[n]) : t \in Texts, n \in 1..6}
    \cup {Stringify(Malformed[n]) : n \in 1..Len(Malformed)}
    \cup Strings(RawAlphabet, MaxRawLen)
    \cup Prefixes(BodyPasta)
    \cup {NotJson, BodyPasta, BodyEmptyContent, BodySpaced, BodyEscaped,
          BodyFractions, BodyTrailingComma, BodyBadEscape, BodyRawNewline,
          BodySingleQuotes, BodyLeadingZero, BodyTwoValues}

ResponseContexts ==
    {[args |-> [ingredients |-> IngUndefined], error |-> e, result |-> r] :
        e \in BOOLEAN,
        r \in {NoResultField, NoBody} \cup {ResultOf(b) : b \in ResponseBodies}}

(***************************************************************************)
(* One invocation of a handler by the AppSync runtime: phase names the     *)
(* handler the runtime is about to call with ctx, handler the function     *)
(* that ran, req and res what it returned (thrown where it threw) and log  *)
(* the lines it wrote.                                                     *)
(***************************************************************************)
Init ==
    /\ \/ phase = "request" /\ ctx \in RequestContexts
       \/ phase = "response" /\ ctx \in ResponseContexts
    /\ handler = "none"
    /\ thrown = FALSE
    /\ req = NoRequest
    /\ res = NoResult
    /\ log = <<>>

(* What a call leaves: whether it threw, what it returned, what it logged. *)
RequestEnds(outcome) ==
    /\ thrown' = (outcome.kind = "throw")
    /\ req' = outcome.value
    /\ log' = outcome.log
    /\ UNCHANGED <<ctx, res>>

ResponseEnds(outcome) ==
    /\ thrown' = (outcome.kind = "throw")
    /\ res' = outcome.value
    /\ log' = outcome.log
    /\ UNCHANGED <<ctx, req>>

Request ==
    /\ phase = "request"
    /\ phase' = "requested"
    /\ handler' = "bedrock.js"
    /\ RequestEnds(request(ctx))

RequestV1 ==
    /\ phase = "request"
    /\ phase' = "requested"
    /\ handler' = "part_001"
    /\ RequestEnds(requestV1(ctx))

Response ==
    /\ phase = "response"
    /\ phase' = "responded"
    /\ handler' = "bedrock.js"
    /\ ResponseEnds(response(ctx))

ResponseV1 ==
    /\ phase = "response"
    /\ phase' = "responded"
    /\ handler' = "part_001"
    /\ ResponseEnds(responseV1(ctx))

Next == Request \/ RequestV1 \/ Response \/ ResponseV1

Spec == Init /\ [][Next]_vars

TypeOK ==
    /\ phase \in {"request", "requested", "response", "responded"}
    /\ handler \in {"none", "bedrock.js", "part_001"}
    /\ thrown \in BOOLEAN
(***************************************************************************)
(* Properties.  What is expected of a handler is stated in terms of the    *)
(* context it was called with, with definitions of its own.               *)
(***************************************************************************)
EmptyPrompt ==
    <<"S", "u", "g", "g", "e", "s", "t", " ", "a", " ", "r", "e", "c", "i",
      "p", "e", " ", "i", "d", "e", "a", " ", "u", "s", "i", "n", "g", " ",
      "t", "h", "e", "s", "e", " ", "i", "n", "g", "r", "e", "d", "i", "e",
      "n", "t", "s", ":", " ", ".">>

RicePrompt ==
    <<"S", "u", "g", "g", "e", "s", "t", " ", "a", " ", "r", "e", "c", "i",
      "p", "e", " ", "i", "d", "e", "a", " ", "u", "s", "i", "n", "g", " ",
      "t", "h", "e", "s", "e", " ", "i", "n", "g", "r", "e", "d", "i", "e",
      "n", "t", "s", ":", " ", "r", "i", "c", "e", ",", " ", "e", "g", "g",
      ",", " ", "o", "i", "l", ".">>

BodyNullBlock ==
    <<"{", "\"", "c", "o", "n", "t", "e", "n", "t", "\"", ":", "[", "n",
      "u", "l", "l", "]", "}">>

Requested == phase = "requested"

Responded == phase = "responded"

(* The text response reads, when ctx.result is there. *)
GivenBody == ctx.result.body

HasMember(x, key) == x.k = "obj" /\ \E n \in 1..Len(x.v) : x.v[n].key = key

(* The value an object holds under key: that of its last member so named. *)
MemberOf(x, key) ==
    LET at == {n \in 1..Len(x.v) : x.v[n].key = key}
    IN  x.v[CHOOSE n \in at : \A m \in at : m <= n].val

(* The expected shape of a parsed response body. *)
ExpectedShape(x) ==
    /\ x.k = "obj"
    /\ HasMember(x, K_content)
    /\ MemberOf(x, K_content).k = "arr"
    /\ Len(MemberOf(x, K_content).v) > 0
    /\ MemberOf(x, K_content).v[1].k = "obj"
    /\ HasMember(MemberOf(x, K_content).v[1], K_type)
    /\ MemberOf(MemberOf(x, K_content).v[1], K_type).k = "str"
    /\ MemberOf(MemberOf(x, K_content).v[1], K_type).v = S_text
    /\ HasMember(MemberOf(x, K_content).v[1], K_text)
    /\ MemberOf(MemberOf(x, K_content).v[1], K_text).k = "str"

FirstText(x) == MemberOf(MemberOf(x, K_content).v[1], K_text).v

(* Whether the first content block of a parsed body is null. *)
FirstBlockNull(x) ==
    /\ x.k = "obj"
    /\ HasMember(x, K_content)
    /\ MemberOf(x, K_content).k = "arr"
    /\ Len(MemberOf(x, K_content).v) > 0
    /\ MemberOf(x, K_content).v[1].k = "null"

UpstreamMessageOf(h) ==
    IF h = "bedrock.js" THEN UpstreamErrorMessage ELSE UpstreamErrorMessageV1

(* C1: for every invocation context, ctx.result absent included, response *)
(* does not raise and returns a record with a body.                        *)
C1_NeverRaises == Responded => ~thrown

(* C2: whenever ctx.error is present, response returns the fixed           *)
(* upstream-error message, whatever ctx.result is.                         *)
C2_ErrorWins ==
    Responded /\ ctx.error =>
        ~thrown /\ res.body = UpstreamMessageOf(handler)

(* C3: with no ctx.error, for a body that parses as JSON but has not the   *)
(* expected shape, response returns the unexpected-structure message and   *)
(* does not raise.                                                         *)
C3_UnexpectedStructure ==
    Responded /\ ~ctx.error /\ ctx.result.defined /\ ctx.result.bodyDefined
    /\ JSONParse(GivenBody).ok /\ ~ExpectedShape(JSONParse(GivenBody).val) =>
        ~thrown /\ res.body = UnexpectedStructureMessage

(* Texts that are not JSON, by the grammar. *)
KnownUnparseable ==
    {NotJson, <<>>, BodyTrailingComma, BodyBadEscape, BodyRawNewline,
     BodySingleQuotes, BodyLeadingZero, BodyTwoValues}
    \cup Prefixes(BodyPasta)

(* C4: with no ctx.error, for a body that is not parseable as JSON (a     *)
(* missing body included, which JSON.parse reads as the text undefined),   *)
(* response returns the parse-failure message, and does not raise.         *)
C4_ParseFailure ==
    /\ Responded /\ ~ctx.error /\ ctx.result.defined
    /\ \/ ~ctx.result.bodyDefined
       \/ ~JSONParse(GivenBody).ok
       \/ GivenBody \in KnownUnparseable
    => /\ ~thrown
       /\ res.body = ParseFailureMessage
       /\ res.body # UpstreamMessageOf(handler)
       /\ res.body # UnexpectedStructureMessage

C4_Witness ==
    /\ Responded /\ handler = "bedrock.js" /\ ~ctx.error
    /\ ctx.result.defined /\ ctx.result.bodyDefined /\ GivenBody = NotJson
    /\ ~thrown /\ res.body = ParseFailureMessage

(* C5: with no ctx.error, for a body of the expected shape, response       *)
(* returns content[0].text in full; the preview's truncation and ellipsis  *)
(* are in the log only, and later content blocks are ignored.              *)
C5_FullText ==
    Responded /\ ~ctx.error /\ ctx.result.defined /\ ctx.result.bodyDefined =>
        /\ JSONParse(GivenBody).ok /\ ExpectedShape(JSONParse(GivenBody).val) =>
              ~thrown /\ res.body = FirstText(JSONParse(GivenBody).val)
        /\ \A t \in Texts : \A n \in 1..6 :
              GivenBody = Stringify(WellFormed(t)[n]) => ~thrown /\ res.body = t
        /\ GivenBody = BodyPasta => ~thrown /\ res.body = Pasta

C5_Witness ==
    /\ Responded /\ handler = "bedrock.js" /\ ~ctx.error /\ ~thrown
    /\ GivenBody = Stringify(WellFormed(LongText(PreviewLimit + 1))[2])
    /\ res.body = LongText(PreviewLimit + 1)
    /\ log[Len(log)].detail = LongText(PreviewLimit) \o <<".", ".", ".">>

(* join(I, ", "), from the last element back. *)
RECURSIVE Joined(_)
Joined(I) ==
    IF Len(I) = 0 THEN <<>>
    ELSE IF Len(I) = 1 THEN I[1]
    ELSE Joined(SubSeq(I, 1, Len(I) - 1)) \o <<",", " ">> \o I[Len(I)]

(* The prompt the request logged, and the text it put in the body. *)
LoggedPrompt == log[Len(log)].detail

SentPayload == JSONParse(req.params.body).val

SentMessage == MemberOf(SentPayload, K_messages).v[1]

SentBlock == MemberOf(SentMessage, K_content).v[1]

SentText == MemberOf(SentBlock, K_text).v

(* C6: for ingredients a sequence I of strings, or absent, the prompt is   *)
(* the fixed sentence around join(I, ", "), in order, and the text sent is *)
(* that prompt between the Human and Assistant markers.                    *)
C6_Prompt ==
    Requested /\ ctx.args.ingredients.kind \in {"undefined", "array"} =>
        /\ ~thrown
        /\ LoggedPrompt = PromptPrefix \o Joined(ctx.args.ingredients.arr) \o <<".">>
        /\ SentText = <<"\n", "\n", "H", "u", "m", "a", "n", ":", " ">>
                        \o LoggedPrompt
                        \o <<"\n", "\n", "A", "s", "s", "i", "s", "t", "a", "n", "t", ":">>
        /\ ctx.args.ingredients.kind = "undefined" => LoggedPrompt = EmptyPrompt

C6_Witness ==
    /\ Requested /\ handler = "bedrock.js" /\ ~thrown
    /\ ctx.args.ingredients.kind = "array"
    /\ ctx.args.ingredients.arr =
          <<(<<"r", "i", "c", "e">>), (<<"e", "g", "g">>), (<<"o", "i", "l">>)>>
    /\ LoggedPrompt = RicePrompt

(* The string representation of a value that is not a sequence. *)
Representation(x) ==
    CASE x.kind = "null" -> <<"n", "u", "l", "l">>
      [] x.kind = "object" ->
            <<"[", "o", "b", "j", "e", "c", "t", " ", "O", "b", "j", "e", "c", "t", "]">>
      [] x.kind = "string" -> x.str
      [] x.kind = "number" /\ x.num = 0 -> <<"0">>
      [] x.kind = "number" /\ x.num = 5 -> <<"5">>
      [] x.kind = "number" /\ x.num = 42 -> <<"4", "2">>

(* C7: request never fails; a value of ingredients that is not a sequence  *)
(* enters the prompt as its string representation.                         *)
C7_NeverFails ==
    Requested =>
        /\ ~thrown
        /\ req.method = "POST"
        /\ ctx.args.ingredients.kind \notin {"undefined", "array"} =>
              /\ LoggedPrompt =
                    PromptPrefix \o Representation(ctx.args.ingredients) \o <<".">>
              /\ SentText = <<"\n", "\n", "H", "u", "m", "a", "n", ":", " ">>
                              \o LoggedPrompt
                              \o <<"\n", "\n", "A", "s", "s", "i", "s", "t", "a", "n", "t", ":">>

C7_Witness ==
    /\ Requested /\ handler = "bedrock.js" /\ ~thrown
    /\ ctx.args.ingredients.kind = "object"
    /\ LoggedPrompt = PromptPrefix \o ObjectObject \o <<".">>

IsStr(x, s) == x.k = "str" /\ x.v = s

Keys(x) == [n \in 1..Len(x.v) |-> x.v[n].key]

(* C8: whatever the input, the request has the fixed path, method and      *)
(* header, and its body is JSON of the fixed envelope: the version tag,    *)
(* max_tokens 1000 and one user message of one text block; the ingredients *)
(* change that block's text only.                                          *)
C8_Envelope ==
    Requested =>
        /\ ~thrown
        /\ req.resourcePath = "/model/anthropic.claude-3-sonnet-20240229-v1:0/invoke"
        /\ req.method = "POST"
        /\ req.params.headers = [ContentType |-> "application/json"]
        /\ JSONParse(req.params.body).ok
        /\ SentPayload.k = "obj"
        /\ Keys(SentPayload) = <<K_anthropic_version, K_max_tokens, K_messages>>
        /\ IsStr(SentPayload.v[1].val, AnthropicVersion)
        /\ SentPayload.v[2].val.k = "num"
        /\ SentPayload.v[2].val.v = <<"1", "0", "0", "0">>
        /\ SentPayload.v[3].val.k = "arr"
        /\ Len(SentPayload.v[3].val.v) = 1
        /\ SentMessage.k = "obj"
        /\ Keys(SentMessage) = <<K_role, K_content>>
        /\ IsStr(SentMessage.v[1].val, S_user)
        /\ SentMessage.v[2].val.k = "arr"
        /\ Len(SentMessage.v[2].val.v) = 1
        /\ SentBlock.k = "obj"
        /\ Keys(SentBlock) = <<K_type, K_text>>
        /\ IsStr(SentBlock.v[1].val, S_text)
        /\ SentBlock.v[2].val.k = "str"
        /\ SentBlock.v[2].val.v = HumanPrefix \o LoggedPrompt \o AssistantSuffix

C8_Witness ==
    /\ Requested /\ handler = "bedrock.js" /\ ~thrown
    /\ ctx.args.ingredients.kind = "array"
    /\ ctx.args.ingredients.arr = <<(<<"\"">>), (<<"\n">>)>>
    /\ JSONParse(req.params.body).ok
    /\ Len(SentPayload.v) = 3

(* C10, as claimed: for every input the two variants of request and of     *)
(* response have the same outcome (the same returned record, or both       *)
(* raise).                                                                 *)
C10_SameOutcome ==
    /\ Requested /\ handler = "bedrock.js" =>
          thrown = (requestV1(ctx).kind = "throw") /\ req = requestV1(ctx).value
    /\ Requested /\ handler = "part_001" =>
          thrown = (request(ctx).kind = "throw") /\ req = request(ctx).value
    /\ Responded /\ handler = "bedrock.js" =>
          thrown = (responseV1(ctx).kind = "throw") /\ res = responseV1(ctx).value
    /\ Responded /\ handler = "part_001" =>
          thrown = (response(ctx).kind = "throw") /\ res = response(ctx).value

(* The contexts on which the two variants of response part. *)
ErrorWithResult == ctx.error /\ ctx.result.defined

NullFirstBlock ==
    /\ ~ctx.error /\ ctx.result.defined /\ ctx.result.bodyDefined
    /\ JSONParse(GivenBody).ok
    /\ FirstBlockNull(JSONParse(GivenBody).val)

(* C10, amended: the variants of request have the same outcome for every   *)
(* input, and so have the variants of response except on two kinds of      *)
(* context: an error with a result, where each returns its own wording of  *)
(* the upstream-error message, and a parsed body whose first content block *)
(* is null, where bedrock.js returns the unexpected-structure message and  *)
(* part_001 raises.                                                        *)
C10_SameButTwoCases ==
    /\ Requested /\ handler = "bedrock.js" =>
          thrown = (requestV1(ctx).kind = "throw") /\ req = requestV1(ctx).value
    /\ Requested /\ handler = "part_001" =>
          thrown = (request(ctx).kind = "throw") /\ req = request(ctx).value
    /\ Responded /\ ~ErrorWithResult /\ ~NullFirstBlock /\ handler = "bedrock.js" =>
          thrown = (responseV1(ctx).kind = "throw") /\ res = responseV1(ctx).value
    /\ Responded /\ ~ErrorWithResult /\ ~NullFirstBlock /\ handler = "part_001" =>
          thrown = (response(ctx).kind = "throw") /\ res = response(ctx).value
    /\ Responded /\ ErrorWithResult =>
          ~thrown /\ res.body = UpstreamMessageOf(handler)
    /\ Responded /\ NullFirstBlock =>
          IF handler = "bedrock.js"
          THEN ~thrown /\ res.body = UnexpectedStructureMessage
          ELSE thrown

C10_Witness ==
    /\ Responded /\ handler = "part_001" /\ thrown
    /\ ~ctx.error /\ ctx.result.defined /\ GivenBody = BodyNullBlock

(* Further properties of the response of bedrock.js alone. *)
BedrockNeverRaisesGivenResult ==
    Responded /\ handler = "bedrock.js" /\ ctx.result.defined => ~thrown

BedrockUnexpectedStructure ==
    handler = "bedrock.js" => C3_UnexpectedStructure

====
